---- MODULE Spec2Model ----
(***************************************************************************)
(* A model of pdf_downloader_agent.py: the PDFDownloaderAgent class        *)
(* (_setup_browser, navigate_to_url, find_pdf_links, download_pdfs,        *)
(* rename_latest_download, close) and main(), run against a browser, a web *)
(* page and a download directory that behave nondeterministically.         *)
(*                                                                         *)
(* Python strings are sequences of one-character strings.  None and the    *)
(* empty string are both the empty sequence: the code only ever tests them *)
(* for truthiness ("if not pdf_url", "if onclick and ...").                *)
(***************************************************************************)
EXTENDS Integers, Sequences, FiniteSets, TLC

VARIABLES
    pc,               \* position of main() / download_pdfs / rename_latest_download
    dom,              \* the elements of the page at the target URL, in document order
    loaded,           \* driver.get(url) of navigate_to_url brought the page up
    dir,              \* the download folder: a set of [name, mtime]
    clock,            \* last modification time handed out by the filesystem
    driver,           \* self.driver: "none", "primary" or "secondary"
    setup,            \* outcomes of the two driver-acquisition paths, in call order
    lookupErr,        \* find_pdf_links: the lookups that raised (until download_pdfs has the list)
    pdf_links,        \* find_pdf_links' list / download_pdfs' pdf_links (indices into dom)
    i,                \* number of links the for loop has taken so far (enumerate's i + 1)
    reads,            \* the element reads of the current link that raised (until the URL checks)
    pdf_url,          \* download_pdfs' local pdf_url
    download_counter, \* self.download_counter
    handles,          \* driver.window_handles
    focus,            \* the window the driver is switched to (0: a closed window)
    dl,               \* the browser's download of each link: none, writing, done, gone
    latest_file,      \* rename_latest_download's local latest_file
    polls,            \* iterations done of "for _ in range(30)"
    fin,              \* the current rename_latest_download call: what it saw and did
    hist              \* history: links taken, downloads initiated, renames, failures

vars == <<pc, dom, loaded, dir, clock, driver, setup, lookupErr, pdf_links, i, reads,
          pdf_url, download_counter, handles, focus, dl, latest_file, polls, fin, hist>>

----------------------------------------------------------------------------
(* Bounds of the model *)

\* most elements on a page of the download runs
MaxLinks == 2

\* most elements on a page of the link-discovery runs
MaxElems == 2

----------------------------------------------------------------------------
(* Strings *)

None == <<>>

S_pdf == <<"p","d","f">>
DOT_PDF == <<".","p","d","f">>
CRDOWNLOAD == <<".","c","r","d","o","w","n","l","o","a","d">>
PDF_CRDOWNLOAD == <<".","p","d","f",".","c","r","d","o","w","n","l","o","a","d">>
WINDOW_OPEN == <<"w","i","n","d","o","w",".","o","p","e","n","(">>

UpperAlpha == <<"A","B","C","D","E","F","G","H","I","J","K","L","M",
                "N","O","P","Q","R","S","T","U","V","W","X","Y","Z">>
LowerAlpha == <<"a","b","c","d","e","f","g","h","i","j","k","l","m",
                "n","o","p","q","r","s","t","u","v","w","x","y","z">>
DigitChars == <<"0","1","2","3","4","5","6","7","8","9">>

\* str.lower(), one character
LowerChar(c) ==
    IF \E k \in 1..26 : UpperAlpha[k] = c
    THEN LowerAlpha[CHOOSE k \in 1..26 : UpperAlpha[k] = c]
    ELSE c

\* str.lower()
Lower(s) == [j \in 1..Len(s) |-> LowerChar(s[j])]

\* s[p:].startswith(t), p counted from 1
StartsWithAt(s, p, t) ==
    /\ p >= 1
    /\ p + Len(t) - 1 <= Len(s)
    /\ \A j \in 1..Len(t) : s[p + j - 1] = t[j]

\* str.endswith
EndsWith(s, t) == Len(t) <= Len(s) /\ StartsWithAt(s, Len(s) - Len(t) + 1, t)

\* "t in s"
Contains(s, t) == \E p \in 1..(Len(s) - Len(t) + 1) : StartsWithAt(s, p, t)

IsQuote(c) == c \in {"'", "\""}

\* the ends e of a match of  window\.open\(['"](.+?pdf)['"]  that begins at p:
\* the group is s[p+13 .. e], one character or more and then pdf, and s[e+1] is a quote
ReGroupEnds(s, p) ==
    { e \in (p + Len(WINDOW_OPEN) + 4)..(Len(s) - 1) :
        /\ StartsWithAt(s, p, WINDOW_OPEN)
        /\ IsQuote(s[p + Len(WINDOW_OPEN)])
        /\ StartsWithAt(s, e - 2, S_pdf)
        /\ IsQuote(s[e + 1]) }

Min(S) == CHOOSE x \in S : \A y \in S : x <= y

\* re.search(r"window\.open\(['\"](.+?pdf)['\"]", s): group 1 of the leftmost match, the
\* lazy .+? taking the shortest group; None when nothing matches
ReSearchGroup(s) ==
    LET starts == { p \in 1..Len(s) : ReGroupEnds(s, p) # {} }
    IN  IF starts = {} THEN None
        ELSE LET p == Min(starts)
             IN  SubSeq(s, p + Len(WINDOW_OPEN) + 1, Min(ReGroupEnds(s, p)))

RECURSIVE DecStr(_)
\* str(n) of a natural number
DecStr(n) ==
    IF n < 10 THEN <<DigitChars[n + 1]>>
    ELSE DecStr(n \div 10) \o <<DigitChars[(n % 10) + 1]>>

\* f"{n:03d}"
Format03d(n) == LET d == DecStr(n) IN [j \in 1..(3 - Len(d)) |-> "0"] \o d

\* a variant that numbers the file by the index passed to rename_latest_download
NewFilenameByIndex(counter, name) == Format03d(i) \o <<"-">> \o name

\* f"{self.download_counter:03d}-{latest_file}"
NewFilename(counter, name) == Format03d(counter) \o <<"-">> \o name

----------------------------------------------------------------------------
(* The page: elements, selectors, find_pdf_links, URL extraction *)

U_pdf == <<"h","t","t","p","s",":","/","/","x",".","o","r","g","/","r","e","p","o","r","t",".","p","d","f">>
U_dir == <<"h","t","t","p","s",":","/","/","x",".","o","r","g","/","p","d","f","/","r","e","p","o","r","t">>
U_no == <<"h","t","t","p","s",":","/","/","x",".","o","r","g","/","r","e","p","o","r","t">>
U_up == <<"h","t","t","p","s",":","/","/","x",".","o","r","g","/","R",".","P","D","F">>
OC_open == <<"w","i","n","d","o","w",".","o","p","e","n","(","'","/","d","/","a",".","p","d","f","'",")">>
OC_two == <<"w","i","n","d","o","w",".","o","p","e","n","(","\"","/","d","/","a",".","p","d","f","\"",",","'","b",".","p","d","f","'",")">>
OC_up == <<"w","i","n","d","o","w",".","o","p","e","n","(","'","/","d","/","A",".","P","D","F","'",")">>
OC_go == <<"g","o","(",")">>
SRC_pdf == <<"p","d","f",".","p","n","g">>
SRC_no == <<"x",".","p","n","g">>

\* an element: its tag, its href, src and onclick attributes (None when absent), whether
\* its class list holds pdf-icon, the index of its parent when that is an anchor of the
\* page (0 when its parent is no anchor), and whether it is displayed
Elem(tag, href, cls, src, onclick, parent, disp) ==
    [tag |-> tag, href |-> href, cls |-> cls, src |-> src, onclick |-> onclick,
     parent |-> parent, disp |-> disp]

Anchor(href, cls, onclick, disp) == Elem("a", href, cls, None, onclick, 0, disp)
Image(src, parent, disp) == Elem("img", None, FALSE, src, None, parent, disp)

\* the page the driver sees: the target page once loaded, else a blank page
Page == IF loaded THEN dom ELSE <<>>

\* the seven lookups of find_pdf_links, in the order they are made
Selectors == 1..7

\* element e of page matches lookup sel
Matches(page, e, sel) ==
    LET el == page[e]
        inAnchor == el.parent # 0
    IN  CASE sel = 1 -> el.tag = "a" /\ EndsWith(el.href, DOT_PDF)        \* a[href$='.pdf']
          [] sel = 2 -> el.tag = "a" /\ el.cls                            \* a.pdf-icon
          [] sel = 3 -> el.tag = "img" /\ inAnchor /\ Contains(el.src, S_pdf) \* a img[src*='pdf']
          [] sel = 4 -> el.tag = "a" /\ Contains(el.href, S_pdf)          \* a[href*='pdf']
          [] sel = 5 -> el.tag = "img" /\ Contains(el.src, S_pdf)         \* img[src*='pdf']
          [] sel = 6 -> el.tag = "a" /\ Contains(el.onclick, S_pdf)       \* a[onclick*='pdf']
          [] sel = 7 -> el.tag = "a" /\ (Contains(el.href, S_pdf) \/ Contains(el.onclick, S_pdf))

\* a variant whose lookups return every anchor of the page
FindElementsAnyAnchor(page, sel) ==
    SelectSeq([j \in 1..Len(page) |-> j], LAMBDA e : page[e].tag = "a")

\* driver.find_elements: the matching elements in document order
FindElements(page, sel) ==
    SelectSeq([j \in 1..Len(page) |-> j], LAMBDA e : Matches(page, e, sel))

InSeq(x, s) == \E j \in 1..Len(s) : s[j] = x

RECURSIVE CollectCss(_, _, _, _)
\* the loop over the six CSS selectors: pdf_links.extend(links), a lookup that raises adds nothing
CollectCss(page, errs, sel, acc) ==
    IF sel > 6 THEN acc
    ELSE CollectCss(page, errs, sel + 1,
                    IF sel \in errs THEN acc ELSE acc \o FindElements(page, sel))

RECURSIVE AppendUnique(_, _)
\* for link in xpath_links: if link not in pdf_links: pdf_links.append(link)
AppendUnique(acc, links) ==
    IF links = <<>> THEN acc
    ELSE AppendUnique(IF InSeq(Head(links), acc) THEN acc ELSE Append(acc, Head(links)),
                      Tail(links))

\* pdf_links after the CSS loop and the XPath lookup
CollectLinks(page, errs) ==
    LET css == CollectCss(page, errs, 1, <<>>)
    IN  IF 7 \in errs THEN css ELSE AppendUnique(css, FindElements(page, 7))

RECURSIVE UniqueOnly(_, _, _)
\* a variant that leaves the is_displayed() test out
UniqueOnly(page, links, acc) ==
    IF links = <<>> THEN acc
    ELSE UniqueOnly(page, Tail(links),
                    IF ~InSeq(Head(links), acc) THEN Append(acc, Head(links)) ELSE acc)

RECURSIVE UniqueDisplayed(_, _, _)
\* for link in pdf_links: if link.is_displayed() and link not in unique_links: append
UniqueDisplayed(page, links, acc) ==
    IF links = <<>> THEN acc
    ELSE UniqueDisplayed(page, Tail(links),
                         IF page[Head(links)].disp /\ ~InSeq(Head(links), acc)
                         THEN Append(acc, Head(links)) ELSE acc)

\* the element reads of one loop iteration that can raise
ReadNames == {"href", "onclick", "tag_name", "parent"}

\* lines 153-178 for element e, the reads in flt raising: pdf_url, or raised when
\* link.tag_name (outside the inner try blocks) raised
ExtractUrl(page, e, flt) ==
    LET el == page[e]
        u1 == IF "href" \in flt THEN None ELSE el.href
        oc == IF "onclick" \in flt THEN None ELSE el.onclick
        u2 == IF u1 # None THEN u1
              ELSE IF oc # None /\ Contains(Lower(oc), S_pdf) THEN ReSearchGroup(oc)
              ELSE None
        ph == IF "parent" \in flt \/ el.parent = 0 THEN None ELSE page[el.parent].href
    IN  IF u2 # None THEN [raised |-> FALSE, url |-> u2]
        ELSE IF "tag_name" \in flt THEN [raised |-> TRUE, url |-> None]
        ELSE IF el.tag = "img" THEN [raised |-> FALSE, url |-> ph]
        ELSE [raised |-> FALSE, url |-> None]

\* a variant that takes only URLs ending in .pdf
UrlAcceptedSuffixOnly(url) == url # None /\ EndsWith(Lower(url), DOT_PDF)

\* lines 180-186 let the URL through
UrlAccepted(url) ==
    /\ url # None
    /\ ~(~EndsWith(Lower(url), DOT_PDF) /\ ~Contains(Lower(url), S_pdf))

----------------------------------------------------------------------------
(* Pages, the download folder, the initial state *)

\* every reference of an element to a parent anchor points back at an anchor
WellFormed(page) ==
    \A j \in 1..Len(page) :
        /\ page[j].tag = "a" => page[j].parent = 0
        /\ page[j].parent # 0 => (page[j].parent < j /\ page[page[j].parent].tag = "a")

PagesOver(shapes, n) ==
    { page \in UNION { [1..k -> shapes] : k \in 0..n } : WellFormed(page) }

\* the download runs: a PDF link, a pdf-icon link to something else, an unrelated link
MainShapes ==
    { Anchor(U_pdf, FALSE, None, TRUE),
      Anchor(U_no, TRUE, None, TRUE),
      Anchor(U_no, FALSE, None, TRUE) }

MainPages == PagesOver(MainShapes, MaxLinks)

\* the link-discovery runs: anchors and images, matched by several lookups, by one or
\* by none, displayed or not
FindShapes ==
    { Anchor(U_pdf, FALSE, None, TRUE),
      Anchor(U_dir, FALSE, None, TRUE),
      Anchor(U_pdf, FALSE, None, FALSE),
      Anchor(U_no, TRUE, None, TRUE),
      Anchor(U_no, FALSE, None, TRUE),
      Anchor(None, FALSE, OC_open, TRUE),
      Image(SRC_no, 0, TRUE) }
    \cup { Image(SRC_pdf, p, d) : p \in 0..MaxElems, d \in BOOLEAN }

FindPages == PagesOver(FindShapes, MaxElems)

\* the URL-extraction runs: one link of every shape the fallback chain tells apart
UrlPages ==
    { <<Anchor(U_pdf, FALSE, None, TRUE)>>,
      <<Anchor(U_dir, FALSE, None, TRUE)>>,
      <<Anchor(U_no, TRUE, None, TRUE)>>,
      <<Anchor(U_up, TRUE, None, TRUE)>>,
      <<Anchor(None, FALSE, OC_open, TRUE)>>,
      <<Anchor(None, FALSE, OC_two, TRUE)>>,
      <<Anchor(None, TRUE, OC_up, TRUE)>>,
      <<Anchor(None, TRUE, OC_go, TRUE)>>,
      <<Anchor(U_no, FALSE, OC_open, TRUE)>>,
      <<Anchor(U_pdf, FALSE, None, FALSE), Image(SRC_pdf, 1, TRUE)>>,
      <<Anchor(U_no, FALSE, None, TRUE), Image(SRC_pdf, 1, TRUE)>>,
      <<Image(SRC_pdf, 0, TRUE)>> }

MainHandle == 1

\* files found in the folder before the run
OldFiles ==
    { [name |-> <<"o","l","d">> \o DOT_PDF, mtime |-> 0],
      [name |-> <<"n","o","t","e","s",".","t","x","t">>, mtime |-> 0] }

\* the file the browser saves the download of the k-th link to
FileName(k) == <<LowerAlpha[k]>> \o DOT_PDF

FinIdle == [active |-> FALSE, seen |-> None, cleared |-> FALSE, calls |-> <<>>,
            slept |-> 0, fault |-> FALSE]

HistInit == [taken |-> <<>>, initiated |-> {}, failed |-> {}, renames |-> <<>>,
             navs |-> 0, opened |-> 0, finCalls |-> 0, raised |-> "none"]

\* the state when main() calls PDFDownloaderAgent(download_folder), lines 20-28
InitOn(pages) ==
    /\ pc = "setup_primary"
    /\ dom \in pages
    /\ loaded = FALSE
    /\ dir \in {{}, OldFiles}
    /\ clock = 0
    /\ driver = "none"
    /\ setup = <<>>
    /\ lookupErr = {}
    /\ pdf_links = <<>>
    /\ i = 0
    /\ reads = {}
    /\ pdf_url = None
    /\ download_counter = 0
    /\ handles = <<>>
    /\ focus = 0
    /\ dl = <<>>
    /\ latest_file = None
    /\ polls = 0
    /\ fin = FinIdle
    /\ hist = HistInit

Init == InitOn(MainPages)

----------------------------------------------------------------------------
(* _setup_browser, navigate_to_url, find_pdf_links *)

\* lines 55-59: the ChromeDriverManager path works
SetupPrimaryOk ==
    /\ pc = "setup_primary"
    /\ driver' = "primary"
    /\ setup' = Append(setup, "ok")
    /\ handles' = <<MainHandle>>
    /\ focus' = MainHandle
    /\ pc' = "navigate"
    /\ UNCHANGED <<dom, loaded, dir, clock, lookupErr, pdf_links, i, reads, pdf_url,
                   download_counter, dl, latest_file, polls, fin, hist>>

\* lines 55-62: install(), webdriver.Chrome(service=...) or maximize_window() raises; in
\* the last case self.driver already holds the browser that was started
SetupPrimaryFail ==
    /\ pc = "setup_primary"
    /\ \E started \in BOOLEAN :
          /\ driver' = IF started THEN "primary" ELSE "none"
          /\ handles' = IF started THEN <<MainHandle>> ELSE <<>>
          /\ focus' = IF started THEN MainHandle ELSE 0
    /\ setup' = Append(setup, "fail")
    /\ pc' = "setup_secondary"
    /\ UNCHANGED <<dom, loaded, dir, clock, lookupErr, pdf_links, i, reads, pdf_url,
                   download_counter, dl, latest_file, polls, fin, hist>>

\* lines 63-65: webdriver.Chrome(options=...) works
SetupSecondaryOk ==
    /\ pc = "setup_secondary"
    /\ driver' = "secondary"
    /\ setup' = Append(setup, "ok")
    /\ handles' = <<MainHandle>>
    /\ focus' = MainHandle
    /\ pc' = "navigate"
    /\ UNCHANGED <<dom, loaded, dir, clock, lookupErr, pdf_links, i, reads, pdf_url,
                   download_counter, dl, latest_file, polls, fin, hist>>

\* a variant that prints the second failure and lets __init__ return
SetupSecondaryFailSwallowed ==
    /\ pc = "setup_secondary"
    /\ setup' = Append(setup, "fail")
    /\ pc' = "navigate"
    /\ UNCHANGED <<dom, loaded, dir, clock, driver, lookupErr, pdf_links, i, reads,
                   pdf_url, download_counter, handles, focus, dl, latest_file, polls,
                   fin, hist>>

\* lines 66-68: the fallback raises too; __init__ raises, and main() (line 292, outside
\* its try) ends with the exception
SetupSecondaryFail ==
    /\ pc = "setup_secondary"
    /\ setup' = Append(setup, "fail")
    /\ hist' = [hist EXCEPT !.raised = "setup"]
    /\ pc' = "fatal"
    /\ UNCHANGED <<dom, loaded, dir, clock, driver, lookupErr, pdf_links, i, reads,
                   pdf_url, download_counter, handles, focus, dl, latest_file, polls, fin>>

\* lines 77-88 and 296-299: driver.get(url) and the wait; a timeout or any other error
\* is printed and the run goes on, on whatever page the browser shows
NavigateToUrl ==
    /\ pc = "navigate"
    /\ loaded' \in BOOLEAN
    /\ pc' = "find"
    /\ UNCHANGED <<dom, dir, clock, driver, setup, lookupErr, pdf_links, i, reads,
                   pdf_url, download_counter, handles, focus, dl, latest_file, polls,
                   fin, hist>>

\* lines 97-127: the seven lookups, any of which may raise
FindCollect ==
    /\ pc = "find"
    /\ \E errs \in SUBSET Selectors :
          /\ pdf_links' = CollectLinks(Page, errs)
          /\ lookupErr' = errs
    /\ pc' = "find_filter"
    /\ UNCHANGED <<dom, loaded, dir, clock, driver, setup, i, reads, pdf_url,
                   download_counter, handles, focus, dl, latest_file, polls, fin, hist>>

\* lines 130-136: keep the displayed links, each once; find_pdf_links returns
FindFilter ==
    /\ pc = "find_filter"
    /\ pdf_links' = UniqueDisplayed(Page, pdf_links, <<>>)
    /\ pc' = "links_check"
    /\ UNCHANGED <<dom, loaded, dir, clock, driver, setup, lookupErr, i, reads, pdf_url,
                   download_counter, handles, focus, dl, latest_file, polls, fin, hist>>

\* line 132: link.is_displayed() raises (the element went stale); nothing catches it
\* before main(), line 306
FindFilterRaise ==
    /\ pc = "find_filter"
    /\ pdf_links # <<>>
    /\ pdf_links' = <<>>
    /\ lookupErr' = {}
    /\ hist' = [hist EXCEPT !.raised = "find"]
    /\ pc' = "main_end"
    /\ UNCHANGED <<dom, loaded, dir, clock, driver, setup, i, reads, pdf_url,
                   download_counter, handles, focus, dl, latest_file, polls, fin>>

\* lines 144-146: no links, download_pdfs returns
NoLinksReturn ==
    /\ pc = "links_check"
    /\ pdf_links = <<>>
    /\ lookupErr' = {}
    /\ pc' = "main_end"
    /\ UNCHANGED <<dom, loaded, dir, clock, driver, setup, pdf_links, i, reads, pdf_url,
                   download_counter, handles, focus, dl, latest_file, polls, fin, hist>>

\* lines 148-150: the for loop starts
StartLoop ==
    /\ pc = "links_check"
    /\ pdf_links # <<>>
    /\ lookupErr' = {}
    /\ dl' = [k \in 1..Len(pdf_links) |-> "none"]
    /\ pc' = "loop"
    /\ UNCHANGED <<dom, loaded, dir, clock, driver, setup, pdf_links, i, reads, pdf_url,
                   download_counter, handles, focus, latest_file, polls, fin, hist>>

----------------------------------------------------------------------------
(* download_pdfs: the loop over the links *)

\* lines 150-178: the loop takes the next link and reads its URL.  An element read
\* raises whenever the driver is not switched to the window the element lives in, and
\* may raise otherwise (a stale element).  link.tag_name raising ends the iteration in
\* the handlers of lines 212-217.
Extract ==
    /\ pc = "loop"
    /\ i < Len(pdf_links)
    /\ i' = i + 1
    /\ hist' = [hist EXCEPT !.taken = Append(@, i + 1)]
    /\ \E flt \in SUBSET ReadNames :
          /\ focus # MainHandle => flt = ReadNames
          /\ LET r == ExtractUrl(Page, pdf_links[i + 1], flt)
             IN  /\ pdf_url' = r.url
                 /\ reads' = IF r.raised THEN {} ELSE flt
                 /\ pc' = IF r.raised THEN "loop" ELSE "url_check"
    /\ UNCHANGED <<dom, loaded, dir, clock, driver, setup, lookupErr, pdf_links,
                   download_counter, handles, focus, dl, latest_file, polls, fin>>

\* lines 180-186: no URL, or a URL without "pdf": continue
UrlReject ==
    /\ pc = "url_check"
    /\ ~UrlAccepted(pdf_url)
    /\ reads' = {}
    /\ pc' = "loop"
    /\ UNCHANGED <<dom, loaded, dir, clock, driver, setup, lookupErr, pdf_links, i,
                   pdf_url, download_counter, handles, focus, dl, latest_file, polls,
                   fin, hist>>

\* lines 180-190: the URL passes; self.download_counter += 1
UrlAccept ==
    /\ pc = "url_check"
    /\ UrlAccepted(pdf_url)
    /\ download_counter' = download_counter + 1
    /\ hist' = [hist EXCEPT !.initiated = @ \cup {i}]
    /\ reads' = {}
    /\ pc' = "open_tab"
    /\ UNCHANGED <<dom, loaded, dir, clock, driver, setup, lookupErr, pdf_links, i,
                   pdf_url, handles, focus, dl, latest_file, polls, fin>>

\* lines 212-217: a driver call of the iteration raised; print and continue
StepFailed == [hist EXCEPT !.failed = @ \cup {i}]

\* line 193: execute_script("window.open('');")
OpenTab ==
    /\ pc = "open_tab"
    /\ \/ /\ handles' = Append(handles, hist.opened + 2)
          /\ hist' = [hist EXCEPT !.opened = @ + 1]
          /\ pc' = "switch_new"
       \/ /\ hist' = StepFailed
          /\ pc' = "loop"
          /\ UNCHANGED handles
    /\ UNCHANGED <<dom, loaded, dir, clock, driver, setup, lookupErr, pdf_links, i,
                   reads, pdf_url, download_counter, focus, dl, latest_file, polls, fin>>

\* a variant whose failure leaves the loop and download_pdfs
SwitchNewUncaught ==
    /\ pc = "switch_new"
    /\ \/ /\ focus' = handles[Len(handles)]
          /\ pc' = "get"
          /\ UNCHANGED hist
       \/ /\ hist' = [StepFailed EXCEPT !.raised = "download"]
          /\ pc' = "main_end"
          /\ UNCHANGED focus
    /\ UNCHANGED <<dom, loaded, dir, clock, driver, setup, lookupErr, pdf_links, i,
                   reads, pdf_url, download_counter, handles, dl, latest_file, polls, fin>>

\* line 194: switch_to.window(window_handles[-1])
SwitchNew ==
    /\ pc = "switch_new"
    /\ \/ /\ focus' = handles[Len(handles)]
          /\ pc' = "get"
          /\ UNCHANGED hist
       \/ /\ hist' = StepFailed
          /\ pc' = "loop"
          /\ UNCHANGED focus
    /\ UNCHANGED <<dom, loaded, dir, clock, driver, setup, lookupErr, pdf_links, i,
                   reads, pdf_url, download_counter, handles, dl, latest_file, polls, fin>>

\* line 197: driver.get(pdf_url).  Either the browser starts saving the response to
\* <name>.pdf.crdownload (the file is there when the dwell of line 200 is over), or the
\* navigation saves nothing (an error page, a document shown in the tab); the call may
\* raise (a timeout, a network error) in both cases.
Get ==
    /\ pc = "get"
    /\ \/ /\ dl' = [dl EXCEPT ![i] = "writing"]
          /\ clock' = clock + 1
          /\ dir' = dir \cup {[name |-> FileName(i) \o CRDOWNLOAD, mtime |-> clock + 1]}
       \/ UNCHANGED <<dl, clock, dir>>
    /\ \/ /\ hist' = [hist EXCEPT !.navs = @ + 1]
          /\ pc' = "dwell"
       \/ /\ hist' = [StepFailed EXCEPT !.navs = @ + 1]
          /\ pc' = "loop"
    /\ UNCHANGED <<dom, loaded, driver, setup, lookupErr, pdf_links, i, reads, pdf_url,
                   download_counter, handles, focus, latest_file, polls, fin>>

\* line 200: time.sleep(3)
Dwell ==
    /\ pc = "dwell"
    /\ pc' = "close_tab"
    /\ UNCHANGED <<dom, loaded, dir, clock, driver, setup, lookupErr, pdf_links, i,
                   reads, pdf_url, download_counter, handles, focus, dl, latest_file,
                   polls, fin, hist>>

\* line 203: driver.close() closes the window the driver is switched to
CloseTab ==
    /\ pc = "close_tab"
    /\ \/ /\ handles' = SelectSeq(handles, LAMBDA h : h # focus)
          /\ focus' = 0
          /\ pc' = "switch_back"
          /\ UNCHANGED hist
       \/ /\ hist' = StepFailed
          /\ pc' = "loop"
          /\ UNCHANGED <<handles, focus>>
    /\ UNCHANGED <<dom, loaded, dir, clock, driver, setup, lookupErr, pdf_links, i,
                   reads, pdf_url, download_counter, dl, latest_file, polls, fin>>

\* line 204: switch_to.window(window_handles[0])
SwitchBack ==
    /\ pc = "switch_back"
    /\ \/ /\ focus' = handles[1]
          /\ pc' = "fin_list"
          /\ UNCHANGED hist
       \/ /\ hist' = StepFailed
          /\ pc' = "loop"
          /\ UNCHANGED focus
    /\ UNCHANGED <<dom, loaded, dir, clock, driver, setup, lookupErr, pdf_links, i,
                   reads, pdf_url, download_counter, handles, dl, latest_file, polls, fin>>

\* line 210: time.sleep(2), and the next iteration
Dwell2 ==
    /\ pc = "dwell2"
    /\ fin' = FinIdle
    /\ latest_file' = None
    /\ polls' = 0
    /\ pc' = "loop"
    /\ UNCHANGED <<dom, loaded, dir, clock, driver, setup, lookupErr, pdf_links, i,
                   reads, pdf_url, download_counter, handles, focus, dl, hist>>

\* the for loop is through: download_pdfs returns
LoopDone ==
    /\ pc = "loop"
    /\ i = Len(pdf_links)
    /\ pc' = "main_end"
    /\ UNCHANGED <<dom, loaded, dir, clock, driver, setup, lookupErr, pdf_links, i,
                   reads, pdf_url, download_counter, handles, focus, dl, latest_file,
                   polls, fin, hist>>

\* lines 304-311 and 281-283: main's finally: agent.close() quits the browser
Close ==
    /\ pc = "main_end"
    /\ handles' = <<>>
    /\ focus' = 0
    /\ pc' = "closed"
    /\ UNCHANGED <<dom, loaded, dir, clock, driver, setup, lookupErr, pdf_links, i,
                   reads, pdf_url, download_counter, dl, latest_file, polls, fin, hist>>

----------------------------------------------------------------------------
(* rename_latest_download *)

\* for _ in range(30)
PollBudget == 30

\* time.sleep(5) before the second os.rename
RetrySleep == 5

HasMarker(name) == EndsWith(name, CRDOWNLOAD)

\* [f for f in os.listdir(...) if f.endswith('.pdf') or f.endswith('.pdf.crdownload')]
Listed(d) == { f \in d : EndsWith(f.name, DOT_PDF) \/ EndsWith(f.name, PDF_CRDOWNLOAD) }

\* pdf_files.sort(key=getmtime, reverse=True); pdf_files[0]
Latest(d) ==
    (CHOOSE f \in Listed(d) : \A g \in Listed(d) : g.mtime <= f.mtime).name

Names(d) == { f.name : f \in d }

\* os.rename(old_path, new_path): the file keeps its modification time
Renamed(d, old, new) ==
    { IF f.name = old THEN [f EXCEPT !.name = new] ELSE f : f \in d }

\* lines 226-239: list the folder and take the newest file.  Listing the folder or
\* reading a modification time may raise (the browser renames a file in between): the
\* handler of line 274 prints, and the call returns.
FinList ==
    /\ pc = "fin_list"
    /\ hist' = [hist EXCEPT !.finCalls = @ + 1]
    /\ polls' = 0
    /\ \/ /\ fin' = [FinIdle EXCEPT !.active = TRUE, !.fault = TRUE]
          /\ pc' = "dwell2"
          /\ UNCHANGED latest_file
       \/ /\ Listed(dir) = {}
          /\ fin' = [FinIdle EXCEPT !.active = TRUE]
          /\ pc' = "dwell2"
          /\ UNCHANGED latest_file
       \/ /\ Listed(dir) # {}
          /\ latest_file' = Latest(dir)
          /\ fin' = [FinIdle EXCEPT !.active = TRUE,
                                    !.seen = IF HasMarker(Latest(dir)) THEN Latest(dir) ELSE None]
          /\ pc' = IF HasMarker(Latest(dir)) THEN "poll" ELSE "rename"
    /\ UNCHANGED <<dom, loaded, dir, clock, driver, setup, lookupErr, pdf_links, i,
                   reads, pdf_url, download_counter, handles, focus, dl>>

\* lines 241-248: one iteration: sleep a second, list again, stop at a newest file
\* without the marker
Poll ==
    /\ pc = "poll"
    /\ polls < PollBudget
    /\ polls' = polls + 1
    /\ \/ /\ fin' = [fin EXCEPT !.fault = TRUE]
          /\ pc' = "dwell2"
          /\ UNCHANGED latest_file
       \/ /\ Listed(dir) = {}
          /\ UNCHANGED <<fin, latest_file, pc>>
       \/ /\ Listed(dir) # {}
          /\ latest_file' = Latest(dir)
          /\ IF HasMarker(Latest(dir))
             THEN fin' = [fin EXCEPT !.seen = Latest(dir)] /\ pc' = "poll"
             ELSE fin' = [fin EXCEPT !.cleared = TRUE] /\ pc' = "rename"
    /\ UNCHANGED <<dom, loaded, dir, clock, driver, setup, lookupErr, pdf_links, i,
                   reads, pdf_url, download_counter, handles, focus, dl, hist>>

\* a variant without the test of line 250
PollExhaustedNoCheck ==
    /\ pc = "poll"
    /\ polls = PollBudget
    /\ pc' = "rename"
    /\ UNCHANGED <<dom, loaded, dir, clock, driver, setup, lookupErr, pdf_links, i,
                   reads, pdf_url, download_counter, handles, focus, dl, latest_file,
                   polls, fin, hist>>

\* lines 250-252: the thirty iterations are over
PollExhausted ==
    /\ pc = "poll"
    /\ polls = PollBudget
    /\ pc' = IF HasMarker(latest_file) THEN "dwell2" ELSE "rename"
    /\ UNCHANGED <<dom, loaded, dir, clock, driver, setup, lookupErr, pdf_links, i,
                   reads, pdf_url, download_counter, handles, focus, dl, latest_file,
                   polls, fin, hist>>

RenameOutcomes == {"ok", "PermissionError", "OSError"}

\* what an os.rename(old, new) with outcome out, made after sleeping slept, leaves in
\* the folder and the history
RenameCall(out, slept) ==
    /\ fin' = [fin EXCEPT !.calls = Append(@, out), !.slept = @ + slept]
    /\ IF out = "ok"
       THEN /\ dir' = Renamed(dir, latest_file, NewFilename(download_counter, latest_file))
            /\ hist' = [hist EXCEPT !.renames =
                          Append(@, [link |-> i, old |-> latest_file,
                                     new |-> NewFilename(download_counter, latest_file)])]
       ELSE UNCHANGED <<dir, hist>>

\* a variant that gives up after a PermissionError as after any other error
RenameNoRetry ==
    /\ pc = "rename"
    /\ \E out \in RenameOutcomes :
          /\ out = "ok" => latest_file \in Names(dir)
          /\ RenameCall(out, 0)
    /\ pc' = "dwell2"
    /\ UNCHANGED <<dom, loaded, clock, driver, setup, lookupErr, pdf_links, i, reads,
                   pdf_url, download_counter, handles, focus, dl, latest_file, polls>>

\* lines 254-265 and 271-272: the first os.rename; a PermissionError leads to the retry,
\* any other error is printed
Rename ==
    /\ pc = "rename"
    /\ \E out \in RenameOutcomes :
          /\ out = "ok" => latest_file \in Names(dir)
          /\ RenameCall(out, 0)
          /\ pc' = IF out = "PermissionError" THEN "rename_retry" ELSE "dwell2"
    /\ UNCHANGED <<dom, loaded, clock, driver, setup, lookupErr, pdf_links, i, reads,
                   pdf_url, download_counter, handles, focus, dl, latest_file, polls>>

\* lines 265-270: time.sleep(5) and the second os.rename; any error is printed
RenameRetry ==
    /\ pc = "rename_retry"
    /\ \E out \in RenameOutcomes :
          /\ out = "ok" => latest_file \in Names(dir)
          /\ RenameCall(out, RetrySleep)
    /\ pc' = "dwell2"
    /\ UNCHANGED <<dom, loaded, clock, driver, setup, lookupErr, pdf_links, i, reads,
                   pdf_url, download_counter, handles, focus, dl, latest_file, polls>>

----------------------------------------------------------------------------
(* The browser's download manager *)

BrowserRuns == pc \notin {"setup_primary", "setup_secondary", "fatal", "closed"}

\* the download is complete: the last write, and the file takes its final name
BrowserFinish(k) ==
    /\ BrowserRuns
    /\ dl[k] = "writing"
    /\ clock' = clock + 1
    /\ dir' = { f \in dir : f.name # FileName(k) \o CRDOWNLOAD }
                 \cup {[name |-> FileName(k), mtime |-> clock + 1]}
    /\ dl' = [dl EXCEPT ![k] = "done"]
    /\ UNCHANGED <<pc, dom, loaded, driver, setup, lookupErr, pdf_links, i, reads,
                   pdf_url, download_counter, handles, focus, latest_file, polls, fin,
                   hist>>

\* the download fails or is cancelled: the partial file is removed
BrowserCancel(k) ==
    /\ BrowserRuns
    /\ dl[k] = "writing"
    /\ dir' = { f \in dir : f.name # FileName(k) \o CRDOWNLOAD }
    /\ dl' = [dl EXCEPT ![k] = "gone"]
    /\ UNCHANGED <<pc, dom, loaded, clock, driver, setup, lookupErr, pdf_links, i,
                   reads, pdf_url, download_counter, handles, focus, latest_file, polls,
                   fin, hist>>

Browser == \E k \in 1..Len(dl) : BrowserFinish(k) \/ BrowserCancel(k)

----------------------------------------------------------------------------
(* The specifications *)

Setup == SetupPrimaryOk \/ SetupPrimaryFail \/ SetupSecondaryOk \/ SetupSecondaryFail

Find == FindCollect \/ FindFilter \/ FindFilterRaise \/ NoLinksReturn \/ StartLoop

Loop == Extract \/ UrlReject \/ UrlAccept \/ OpenTab \/ SwitchNew \/ Get \/ Dwell
           \/ CloseTab \/ SwitchBack \/ Dwell2 \/ LoopDone

Finalize == FinList \/ Poll \/ PollExhausted \/ Rename \/ RenameRetry

Next == Setup \/ NavigateToUrl \/ Find \/ Loop \/ Finalize \/ Browser \/ Close

\* a run of main()
Spec == Init /\ [][Next]_vars

\* runs of main() on the pages of the URL-extraction cases
InitUrl == InitOn(UrlPages)

SpecUrl == InitUrl /\ [][Next]_vars

\* runs of main() up to the return of find_pdf_links, on the link-discovery pages
InitFind == InitOn(FindPages)

NextFind == Setup \/ NavigateToUrl \/ FindCollect \/ FindFilter \/ FindFilterRaise

SpecFind == InitFind /\ [][NextFind]_vars

----------------------------------------------------------------------------
(* Properties *)

Last(s) == s[Len(s)]

\* the downloads initiated for the links up to position k
InitiatedUpTo(k) == Cardinality({ j \in hist.initiated : j <= k })

\* C1, as stated: the file renamed while the link at discovery position k is processed
\* gets the prefix k (001-, 002-, ... by position), whatever happened to earlier links.
C1_PrefixIsPosition ==
    \A n \in 1..Len(hist.renames) :
        LET r == hist.renames[n] IN r.new = Format03d(r.link) \o <<"-">> \o r.old

\* C1, amended: the sequence counter counts the downloads initiated (links whose URL was
\* extracted and accepted), so the file renamed while the link at position k is
\* processed gets as prefix the number of downloads initiated for the links up to k; a
\* link failing after that point (tab, navigation, close) has consumed its number, a
\* link without an accepted URL consumes none; renames follow discovery order.
C1_PrefixIsInitiatedCount ==
    /\ download_counter = Cardinality(hist.initiated)
    /\ hist.failed \subseteq hist.initiated
    /\ hist.initiated \subseteq 1..i
    /\ \A n \in 1..Len(hist.renames) :
          LET r == hist.renames[n]
          IN  /\ r.link \in hist.initiated
              /\ r.new = Format03d(InitiatedUpTo(r.link)) \o <<"-">> \o r.old
              /\ InitiatedUpTo(r.link) <= r.link
              /\ \A m \in 1..(n - 1) : hist.renames[m].link < r.link

\* the second link's file is renamed with 001-: the first link consumed no number
C1_Witness ==
    /\ pc = "closed"
    /\ \E n \in 1..Len(hist.renames) :
          /\ hist.renames[n].link = 2
          /\ hist.renames[n].new = <<"0","0","1","-">> \o FileName(2)

\* the finalizer saw a newest file with the marker and then, within the budget, a newest
\* file that is its completed form
MarkerCleared ==
    /\ fin.active
    /\ fin.seen # None
    /\ fin.cleared
    /\ latest_file \o CRDOWNLOAD = fin.seen

\* the finalizer saw a newest file with the marker and never one without
MarkerStayed == fin.active /\ fin.seen # None /\ ~fin.cleared

RenamedHere == \E n \in 1..Len(hist.renames) : hist.renames[n].link = i

\* C2, as stated: when the finalizer returns, a marker that cleared within the 30 polls
\* has led to the file <NNN>-<name> with no in-progress file left, and a marker that
\* never cleared to no rename; the finalizer never raises.
C2_FinalizerRenamesOnceCleared ==
    pc = "dwell2" =>
        /\ MarkerCleared =>
              /\ NewFilename(download_counter, latest_file) \in Names(dir)
              /\ latest_file \notin Names(dir)
              /\ fin.seen \notin Names(dir)
        /\ MarkerStayed => (fin.calls = <<>> /\ ~RenamedHere)
        /\ hist.raised = "none"

\* C2, amended: a marker that clears at one of the 30 polls leads to os.rename being
\* called for the completed file, and the file is <NNN>-<name> (NNN the sequence
\* counter, three digits) with no in-progress file left exactly when a rename call
\* succeeds; otherwise it keeps its completed name.  A marker that does not clear is
\* waited for during all 30 polls (unless listing the folder raises) and then no file
\* is renamed.  The finalizer never raises.
C2_FinalizerRenamesWhenRenameSucceeds ==
    /\ polls <= PollBudget
    /\ pc = "dwell2" =>
        /\ MarkerCleared =>
              /\ polls \in 1..PollBudget
              /\ fin.calls # <<>>
              /\ fin.seen \notin Names(dir)
              /\ IF Last(fin.calls) = "ok"
                 THEN /\ NewFilename(download_counter, latest_file) \in Names(dir)
                      /\ Format03d(download_counter) \o <<"-">> \o latest_file \in Names(dir)
                      /\ Len(Format03d(download_counter)) = 3
                      /\ latest_file \notin Names(dir)
                 ELSE /\ latest_file \in Names(dir)
                      /\ ~RenamedHere
        /\ MarkerStayed =>
              /\ fin.calls = <<>>
              /\ ~RenamedHere
              /\ fin.fault \/ polls = PollBudget
        /\ hist.raised = "none"

\* the marker cleared at the thirtieth poll and the file was renamed
C2_Witness ==
    /\ pc = "dwell2"
    /\ MarkerCleared
    /\ polls = PollBudget
    /\ NewFilename(download_counter, latest_file) \in Names(dir)

\* C3: the file renamed while a link is processed is not a file that the download of
\* another link produced, renamed already or not.
C3_RenameAttributed ==
    \A n \in 1..Len(hist.renames) :
        LET r == hist.renames[n]
        IN  \A k \in 1..Len(pdf_links) : k # r.link => ~EndsWith(r.old, FileName(k))

\* C4: a failure of a driver call of one link's iteration ends that iteration only: the
\* links are taken one by one in discovery order, the loop goes through all of them, and
\* download_pdfs returns without an exception.
C4_FailureAbortsOneLink ==
    /\ hist.taken = [k \in 1..i |-> k]
    /\ i <= Len(pdf_links)
    /\ \A k \in hist.failed : k < i \/ (k = i /\ pc \in {"loop", "main_end", "closed"})
    /\ (pc \in {"main_end", "closed"} /\ pdf_links # <<>>) =>
          (i = Len(pdf_links) /\ hist.raised = "none")

\* the first of two links failed at a driver call; both were taken and the run ended
C4_Witness ==
    /\ pc = "closed"
    /\ 1 \in hist.failed
    /\ hist.taken = <<1, 2>>
    /\ 2 \in hist.initiated

\* element e is matched by a lookup that did not raise
Matched(page, errs, e) == \E sel \in Selectors \ errs : Matches(page, e, sel)

FirstSel(page, errs, e) == Min({ sel \in Selectors \ errs : Matches(page, e, sel) })

\* C5: find_pdf_links returns the displayed elements matched by a lookup, each once, in
\* the order of their first match: by lookup (the six CSS selectors, then the XPath),
\* and within a lookup in document order.
C5_FindReturnsVisibleUniqueInOrder ==
    pc = "links_check" =>
        /\ { pdf_links[j] : j \in 1..Len(pdf_links) }
              = { e \in 1..Len(Page) : Matched(Page, lookupErr, e) /\ Page[e].disp }
        /\ \A j, k \in 1..Len(pdf_links) : j < k =>
              /\ pdf_links[j] # pdf_links[k]
              /\ \/ FirstSel(Page, lookupErr, pdf_links[j]) < FirstSel(Page, lookupErr, pdf_links[k])
                 \/ /\ FirstSel(Page, lookupErr, pdf_links[j]) = FirstSel(Page, lookupErr, pdf_links[k])
                    /\ pdf_links[j] < pdf_links[k]

\* two links, each matched by several lookups and returned once, against document order
C5_Witness ==
    /\ pc = "links_check"
    /\ lookupErr = {}
    /\ pdf_links = <<2, 1>>
    /\ Cardinality({ sel \in Selectors : Matches(Page, 1, sel) }) > 1

\* no element of the page is matched by any lookup
ZeroMatch == \A e \in 1..Len(Page) : \A sel \in Selectors : ~Matches(Page, e, sel)

\* C6: on a page without matching elements find_pdf_links returns the empty list and
\* download_pdfs opens no tab, navigates nowhere, leaves the counter alone and never
\* calls the finalizer; the folder stays as it was.
C6_NoMatchNoNavigation ==
    ZeroMatch =>
        /\ pdf_links = <<>>
        /\ download_counter = 0
        /\ hist.opened = 0
        /\ hist.navs = 0
        /\ hist.finCalls = 0
        /\ hist.renames = <<>>
        /\ Len(handles) <= 1
        /\ dir \in {{}, OldFiles}
        /\ pc \notin {"loop", "url_check", "open_tab", "switch_new", "get", "dwell",
                      "close_tab", "switch_back", "fin_list", "poll", "rename",
                      "rename_retry", "dwell2"}

\* the run is over on a loaded page that has elements, none of them matched
C6_Witness == pc = "closed" /\ loaded /\ dom # <<>> /\ ZeroMatch /\ dir = OldFiles

RECURSIVE FirstNonEmpty(_)
FirstNonEmpty(cands) ==
    IF cands = <<>> THEN None
    ELSE IF Head(cands) # None THEN Head(cands)
    ELSE FirstNonEmpty(Tail(cands))

\* the fallback chain of element e, the reads in failed having raised
ChainUrl(page, e, failed) ==
    LET el == page[e]
        own == IF "href" \in failed THEN None ELSE el.href
        handler == IF "onclick" \in failed \/ ~Contains(Lower(el.onclick), S_pdf)
                   THEN None ELSE ReSearchGroup(el.onclick)
        parent == IF el.tag # "img" \/ el.parent = 0 \/ "parent" \in failed
                  THEN None ELSE page[el.parent].href
    IN  FirstNonEmpty(<<own, handler, parent>>)

ContainsPdf(url) == url # None /\ Contains(Lower(url), S_pdf)

C7_Step ==
    /\ pc = "url_check" =>
          /\ pdf_url = ChainUrl(Page, pdf_links[i], reads)
          /\ pc' # "url_check" =>
                /\ pc' \in {"open_tab", "loop"}
                /\ pc' = "open_tab" <=> ContainsPdf(pdf_url)
                /\ pc' = "open_tab" <=> download_counter' = download_counter + 1
                /\ pc' = "loop" => download_counter' = download_counter
                /\ pdf_url = U_no => pc' = "loop"
                /\ pdf_url \in {U_pdf, U_dir} => pc' = "open_tab"
    /\ (pc = "loop" /\ pc' = "loop") => download_counter' = download_counter
    /\ pc' = "open_tab" => (pc \in {"url_check", "open_tab"} /\ ContainsPdf(pdf_url))

\* C7: the URL of a link is the first success of the chain own href, window.open
\* argument of an onclick handler mentioning pdf, href of an image's parent; the
\* download is initiated (counter incremented, tab about to be opened) exactly when
\* that URL is not empty and contains "pdf" in any case: https://x.org/report is
\* rejected, https://x.org/report.pdf and https://x.org/pdf/report are accepted.
C7_InitiatedIffChainUrlHasPdf == [][C7_Step]_vars

\* a download is initiated for an image, with the href of its parent
C7_Witness ==
    /\ pc = "open_tab"
    /\ download_counter = 1
    /\ dom[pdf_links[i]].tag = "img"
    /\ pdf_url = U_pdf

\* C8: the secondary path is tried once, and only after the primary path failed; when
\* both fail the constructor raises and the run ends there: no page is loaded, no link
\* looked for, nothing downloaded or renamed.
C8_SetupFallsBackOnce ==
    /\ Len(setup) <= 2
    /\ Len(setup) = 2 => setup[1] = "fail"
    /\ (Len(setup) >= 1 /\ setup[1] = "ok") => Len(setup) = 1
    /\ pc \notin {"setup_primary", "setup_secondary"} => (setup # <<>> /\ (Last(setup) = "ok" <=> pc # "fatal"))
    /\ setup = <<"fail", "fail">> =>
          /\ pc = "fatal"
          /\ hist.raised = "setup"
          /\ ~loaded
          /\ pdf_links = <<>>
          /\ hist.taken = <<>>
          /\ hist.navs = 0
          /\ hist.finCalls = 0
          /\ hist.renames = <<>>
          /\ download_counter = 0
          /\ dir \in {{}, OldFiles}

\* both paths failed
C8_Witness == pc = "fatal" /\ setup = <<"fail", "fail">> /\ dom # <<>>

\* C9: when the loop takes a link, the driver is switched to the first window and that
\* is the only window open.
C9_FocusRestoredBeforeNextLink ==
    (pc = "loop" /\ i < Len(pdf_links)) =>
        (focus = MainHandle /\ handles = <<MainHandle>>)

\* C10: os.rename is called at most twice in a finalizer call; the second call follows
\* a PermissionError of the first and a sleep of 5; any other first error, and any
\* second error, ends the call with the file under its old name; the finalizer returns
\* to the loop without an exception.
C10_RenameRetriedOnce ==
    /\ Len(fin.calls) <= 2
    /\ fin.calls # <<>> =>
          /\ pc \in {"rename_retry", "dwell2"}
          /\ hist.raised = "none"
          /\ pc = "rename_retry" <=> fin.calls = <<"PermissionError">>
          /\ Len(fin.calls) = 2 => (fin.calls[1] = "PermissionError" /\ fin.slept = RetrySleep)
          /\ Len(fin.calls) = 1 => fin.slept = 0
          /\ Last(fin.calls) = "ok" <=> RenamedHere
          /\ Last(fin.calls) # "ok" =>
                /\ latest_file \in Names(dir)
                /\ NewFilename(download_counter, latest_file) \notin Names(dir)

\* a PermissionError, the retry, and a second failure
C10_Witness ==
    /\ pc = "dwell2"
    /\ fin.calls = <<"PermissionError", "OSError">>
    /\ latest_file \in Names(dir)

====
